---- MODULE Spec2Model ----
(***************************************************************************)
(* The Y2K desktop board: sticky notes revealed by a typewriter loop, the  *)
(* AI reply chain, stickers, the drag controller with its trash bin, the    *)
(* tape player and the FX generator.                                       *)
(*                                                                         *)
(* The repository holds three revisions of the App component:              *)
(*   "A"  src/App.tsx                   notes only, no AI, no trash        *)
(*   "B"  src/unnamed/part_000:51-531   GoogleGenAI reply, stickers, trash *)
(*   "C"  src/unnamed/part_000:569-723  second AI revision, error note     *)
(* The revision is fixed at construction (variable variant).  Revision C    *)
(* leaves its audio and FX functions out and refers to those of B.         *)
(*                                                                         *)
(* Strings are sequences of one-character strings.  An async function is   *)
(* a task record that moves from one await to the next; everything the     *)
(* code runs between two awaits is one action.                             *)
(***************************************************************************)
EXTENDS Integers, Sequences, FiniteSets, TLC

\* ------------------------------------------------------------------ bounds
\* submission cycles started in the submission chain / on the board
MaxCycles == 2
MaxBoardCycles == 1
\* the last value of the clock
MaxClock == 1
\* stickers on the board at once
MaxStickers == 2
\* listener pairs armed at once
MaxDrags == 1
\* calls of startPrint counted as turned away by the busy flag
MaxBlocked == 1
\* listener pairs armed at once in the drag specification
MaxPairs == 2
\* image loads of the FX effect pending at once
MaxLoads == 2
\* revert timers of the tape player pending at once
MaxTimers == 2
\* stickers saved from the FX generator
MaxSaves == 1

\* ------------------------------------------------------- program constants
\* '█', the cursor glyph appended while a text is being typed
Cursor == "[]"
\* inputText || "EMPTY_MSG.TXT"
EmptyMsg == <<"E","M","P","T","Y","_","M","S","G",".","T","X","T">>
\* response.text || "SYSTEM_ERR: HUMOR_MODULE_OFFLINE"
HumorOffline ==
  <<"S","Y","S","T","E","M","_","E","R","R",":"," ","H","U","M","O","R","_",
    "M","O","D","U","L","E","_","O","F","F","L","I","N","E">>
\* the text of the error note of revision C, set whole and never typed
FatalText == <<"FATAL ERROR: AI_OFFLINE", "\n", "CHECK VITE_GEMINI_API_KEY">>
UserTitle == "USER_NOTE.TXT"
ReplyTitle == "SYSTEM_REPLY.EXE"
ErrTitle == "SYS_ERR.LOG"
NoTitle == "none"
\* the status display of the tape player and the delay of its revert timer
InsertTape == <<"I","N","S","E","R","T"," ","T","A","P","E">>
ErrNoTape == <<"E","R","R",":"," ","N","O"," ","T","A","P","E">>
RevertDelay == 1500
NameLimit == 15
\* audioRef.current.src before a file was loaded
NoTape == <<>>
\* the FX generator: no source, the default parameters, the largest side
NoSrc == "null"
DefaultPixelSize == 8
White == "#ffffff"
NoAnimation == "none"
MaxDim == 300
SourceOver == "source-over"

\* ------------------------------------------------------------------ inputs
\* what the user may have typed into the textarea
Inputs == { <<>>, <<"H","I">> }
\* what the provider may answer
Replies == { <<>>, <<"Y">>, <<"O","K">> }
\* floor(Math.random() * 40) for x and for y: both extremes of each
RandPairs == { <<0, 39>>, <<39, 0>> }
\* pointer coordinates of a mouse event, and the trash bin's bounding box
Coord == 0..2
TrashRect == [left |-> 1, right |-> 3, top |-> 1, bottom |-> 3]
\* the files the user may pick for the player; none when the dialog gave
\* no file
NoFile == <<>>
Files == { <<"a",".","m","p","3">>,
           <<"m","y","_","m","i","x","t","a","p","e","_","2","0","0","0",
             ".","m","p","3">> }
\* the images the filter is run on, with their sizes, and those the user
\* may pick in the FX modal
Gallery ==
  { "wide.png", "small.png", "tall.png", "square.png", "vga.png",
    "strip.png" }
ImgSize(src) ==
  CASE src = "wide.png"   -> [width |-> 1000, height |-> 500]
    [] src = "small.png"  -> [width |-> 200, height |-> 100]
    [] src = "tall.png"   -> [width |-> 400, height |-> 1000]
    [] src = "square.png" -> [width |-> 300, height |-> 300]
    [] src = "vga.png"    -> [width |-> 640, height |-> 480]
    [] src = "strip.png"  -> [width |-> 301, height |-> 7]
Images == { "wide.png", "small.png" }
\* positions of the range slider (1 to 20) the filter is run on, and
\* those the user may choose; colours of the colour input; options of the
\* select
Sliders == { 1, 4, 7, 8, 20 }
PixelSizes == { 8, 20 }
Colors == { White, "#ff00ff" }
Animations == { NoAnimation, "spin" }
\* pointer positions of a mousemove
MovePoints == { <<0, 0>>, <<2, 1>> }

VARIABLES
  variant,    \* which revision of App runs
  apiKey,     \* TRUE when the build carries the provider credential
  now,        \* Date.now()
  cards,      \* useState<Array<Card>>
  stickers,   \* useState<Array<Sticker>>
  inputText,  \* useState('') of the textarea
  isPrinting, \* useState(false), the busy flag
  tasks,      \* the calls of startPrint not yet collected, with their locals
  started,    \* how many calls of startPrint passed the busy check
  blocked,    \* calls of startPrint that returned at the busy check
  drags,      \* the armed (onMove, onUp) listener pairs, in arming order
  lastUp,     \* the last mouseup delivered to the armed onUp listeners
  raised,     \* the elements whose el.style.zIndex is "100"
  offset,     \* el.style.left/top of the elements an onMove has written
  showModal,  \* useState(false)
  modalMode,  \* useState<ModalMode>('text')
  audioSrc,   \* audioRef.current.src, the file it was made from
  audioName,  \* useState("INSERT TAPE"), the status display
  isPlaying,  \* useState(false)
  paused,     \* audioRef.current.paused
  revertTimers, \* the pending setTimeout callbacks of toggleAudio
  fxSrc,      \* useState<string | null>(null)
  pixelSize,  \* useState(8)
  fxColor,    \* useState('#ffffff')
  fxAnimation, \* useState('none')
  canvas,     \* what the canvas of the FX modal holds
  loads       \* the images of the FX effect whose onload has not run yet

audioVars == <<audioSrc, audioName, isPlaying, paused, revertTimers>>
fxParams == <<pixelSize, fxColor, fxAnimation>>
canvasVars == <<canvas, loads>>
styleVars == <<raised, offset>>

vars == <<variant, apiKey, now, cards, stickers, inputText, isPrinting,
          tasks, started, blocked, drags, lastUp, raised, offset,
          showModal, modalMode, audioSrc, audioName, isPlaying, paused,
          revertTimers, fxSrc, pixelSize, fxColor, fxAnimation, canvas,
          loads>>

\* ------------------------------------------------------------ pure helpers
Min(a, b) == IF a < b THEN a ELSE b

\* String.prototype.substring(a, b) for 0 <= a <= b <= length
Substring(S, a, b) == SubSeq(S, a + 1, b)

\* a || b on strings: the empty string is falsy
OrElse(S, dflt) == IF S = <<>> THEN dflt ELSE S

\* the text a reveal step i writes
RevealTextAlwaysCursor(S, i) == Substring(S, 0, i) \o <<Cursor>>
RevealText(S, i) ==
  Substring(S, 0, i) \o (IF i < Len(S) THEN <<Cursor>> ELSE <<>>)

\* the loop test  i <= S.length
LoopContinues(S, i) == i <= Len(S)

\* prev.map(c => c.id === id ? {...c, text} : c)
SetTextOrAdd(coll, id, txt) ==
  IF \E k \in DOMAIN coll : coll[k].id = id
    THEN [k \in 1..Len(coll) |->
            IF coll[k].id = id THEN [coll[k] EXCEPT !.text = txt] ELSE coll[k]]
    ELSE Append(coll, [id |-> id, text |-> txt, x |-> 5, y |-> 5,
                       title |-> NoTitle])
SetText(coll, id, txt) ==
  [k \in 1..Len(coll) |->
     IF coll[k].id = id THEN [coll[k] EXCEPT !.text = txt] ELSE coll[k]]

\* prev.filter(c => c.id !== id)
RemoveByIdKeepOnly(coll, id) == SelectSeq(coll, LAMBDA c : c.id = id)
RemoveById(coll, id) == SelectSeq(coll, LAMBDA c : c.id # id)

\* [...prev, c]
AddCardInFront(coll, c) == <<c>> \o coll
AddCard(coll, c) == Append(coll, c)

\* Math.random() * 40 + 5 and Math.random() * 40 + 10
NotePosWide(r) == 2 * r + 5
NotePos(r) == r + 5
StickerPos(r) == r + 10

\* the reply note's offset from the user note
ReplyX(x) == IF variant = "B" THEN Min(x + 5, 70) ELSE Min(x + 10, 70)
ReplyY(y) == Min(y + 15, 70)

\* if (isPrinting) return;
BusyNever == FALSE
Busy == isPrinting

\* the click cadence of the two loops
UserClick(S, i) == i < Len(S)
ReplyClick(S, i) ==
  IF variant = "B" THEN i < Len(S) /\ i % 2 = 0 ELSE i % 2 = 0

\* ev.clientX >= rect.left && ... && ev.clientY <= rect.bottom
InTrashXOnly(px, py) == px >= TrashRect.left /\ px <= TrashRect.right
InTrash(px, py) ==
  /\ px >= TrashRect.left /\ px <= TrashRect.right
  /\ py >= TrashRect.top  /\ py <= TrashRect.bottom

InFlight(t) == t.pc # "done"

\* setIsPrinting(false)
ClearedNever == TRUE
Cleared == FALSE

\* the rendered elements: one per note and per sticker, keyed by id
ElementsOf(c, s) ==
  {<<c[k].id, "card">> : k \in DOMAIN c}
    \cup {<<s[k].id, "sticker">> : k \in DOMAIN s}

\* el.style.prop = v on the elements keys; the styles of the elements
\* that are still rendered
Put(f, keys, v) ==
  [e \in DOMAIN f \cup keys |-> IF e \in keys THEN v ELSE f[e]]
Prune(f, keys) == [e \in DOMAIN f \cap keys |-> f[e]]
NoStyle == [e \in {} |-> "auto"]

\* the check of e.target that opens handleDragStart in revisions B and C;
\* revision A has none
ControlCheck(onBtn) == variant # "A" /\ onBtn

\* String.prototype.slice(0, n) and toUpperCase()
Slice(S, n) == SubSeq(S, 1, Min(n, Len(S)))
LowerCase ==
  <<"a","b","c","d","e","f","g","h","i","j","k","l","m",
    "n","o","p","q","r","s","t","u","v","w","x","y","z">>
UpperCase ==
  <<"A","B","C","D","E","F","G","H","I","J","K","L","M",
    "N","O","P","Q","R","S","T","U","V","W","X","Y","Z">>
ToUpperChar(c) ==
  IF \E k \in DOMAIN LowerCase : LowerCase[k] = c
    THEN UpperCase[CHOOSE k \in DOMAIN LowerCase : LowerCase[k] = c]
    ELSE c
ToUpperCase(S) == [k \in DOMAIN S |-> ToUpperChar(S[k])]

\* file.name.slice(0, 15).toUpperCase()
DisplayName(name) == ToUpperCase(Slice(name, NameLimit))

\* !audioRef.current?.src
NoSourceNever(src) == FALSE
NoSource(src) == src = NoTape

\* Math.max(a, b), Math.ceil(a / b) for b > 0, and the conversion of a
\* non-negative quotient n / d to the integer a canvas dimension holds
Max(a, b) == IF a > b THEN a ELSE b
CeilDiv(a, b) == (a + b - 1) \div b
Trunc(n, d) == n \div d

\* scale = Math.min(1, maxDim / img.width, maxDim / img.height), kept as
\* the fraction num / den
ScaleNone(w, h) == [num |-> 1, den |-> 1]
Scale(w, h) ==
  IF w <= MaxDim /\ h <= MaxDim THEN [num |-> 1, den |-> 1]
  ELSE [num |-> MaxDim, den |-> Max(w, h)]

\* if (fxColor !== '#ffffff')
TintedAlways(color) == TRUE
Tinted(color) == color # White

\* the canvas of the FX modal when it enters the document: 300 x 150,
\* nothing drawn, the default composite mode
Blank ==
  [width |-> 300, height |-> 150, smallWidth |-> 0, smallHeight |-> 0,
   ops |-> <<>>, gco |-> SourceOver, smoothing |-> TRUE,
   of |-> [src |-> NoSrc, ps |-> 0, color |-> White]]

\* img.onload of the FX effect for the values (src, ps0, color) its
\* closure holds: the canvas it leaves.  Each element of ops is a draw on
\* the destination context with the composite mode it was made under.
Render(src, ps0, color) ==
  LET img == ImgSize(src)
      sc  == Scale(img.width, img.height)
      w   == Trunc(img.width * sc.num, sc.den)
      h   == Trunc(img.height * sc.num, sc.den)
      ps  == Max(1, ps0)
      up  == << [op |-> "clearRect", gco |-> SourceOver],
                [op |-> "drawImage", gco |-> SourceOver] >>
      tint == << [op |-> "fillRect", gco |-> "source-atop"],
                 [op |-> "drawImage", gco |-> "multiply"] >>
  IN  [width |-> w, height |-> h,
       smallWidth |-> CeilDiv(w, ps), smallHeight |-> CeilDiv(h, ps),
       ops |-> IF Tinted(color) THEN up \o tint ELSE up,
       gco |-> SourceOver, smoothing |-> FALSE,
       of |-> [src |-> src, ps |-> ps0, color |-> color]]

\* the FX effect after a render in which one of its dependencies changed:
\* with the FX modal shown and a source set it starts the load of a new
\* image, whose onload holds the values of that render
Effect(shown, mode, src, ps, color, pending) ==
  IF shown /\ mode = "fx" /\ src # NoSrc
    THEN Append(pending, [src |-> src, ps |-> ps, color |-> color])
    ELSE pending

\* canvas.toDataURL('image/png'), and URL.createObjectURL(file)
DataUrl(cv) == [url |-> "data", png |-> cv]
BlobUrl == [url |-> "blob", png |-> Blank]

\* -------------------------------------------------------------------- Init
NoUp == [x |-> -1, y |-> -1, gone |-> 0]

Init ==
  /\ variant \in {"A", "B", "C"}
  /\ apiKey \in BOOLEAN
  /\ now = 0
  /\ cards = <<>>
  /\ stickers = <<>>
  /\ inputText = <<>>
  /\ isPrinting = FALSE
  /\ tasks = <<>>
  /\ started = 0
  /\ blocked = 0
  /\ drags = <<>>
  /\ lastUp = NoUp
  /\ raised = {}
  /\ offset = NoStyle
  /\ showModal = FALSE
  /\ modalMode = "text"
  /\ audioSrc = NoTape
  /\ audioName = InsertTape
  /\ isPlaying = FALSE
  /\ paused = TRUE
  /\ revertTimers = <<>>
  /\ fxSrc = NoSrc
  /\ pixelSize = DefaultPixelSize
  /\ fxColor = White
  /\ fxAnimation = NoAnimation
  /\ canvas = Blank
  /\ loads = <<>>

\* --------------------------------------------------------- the environment
\* the wall clock advances; two reads may see the same value
Tick ==
  /\ now < MaxClock
  /\ now' = now + 1
  /\ UNCHANGED <<variant, apiKey, cards, stickers, inputText, isPrinting,
                 tasks, started, blocked, drags, lastUp>>
  /\ UNCHANGED <<styleVars, showModal, modalMode, audioVars, fxSrc, fxParams,
                 canvasVars>>

\* onChange={e => setInputText(e.target.value)}
TypeInput ==
  /\ \E s \in Inputs : s # inputText /\ inputText' = s
  /\ UNCHANGED <<variant, apiKey, now, cards, stickers, isPrinting, tasks,
                 started, blocked, drags, lastUp>>
  /\ UNCHANGED <<styleVars, showModal, modalMode, audioVars, fxSrc, fxParams,
                 canvasVars>>

\* ---------------------------------------------------------------- startPrint
UserNote(id, x, y) ==
  [id |-> id, text |-> <<Cursor>>, x |-> x, y |-> y,
   title |-> IF variant = "A" THEN NoTitle ELSE UserTitle]

ReplyNote(id, x, y) ==
  [id |-> id, text |-> <<Cursor>>, x |-> ReplyX(x), y |-> ReplyY(y),
   title |-> ReplyTitle]

\* { id: Date.now()+2, text: "FATAL ERROR ...", x: 50, y: 50, title: SYS_ERR }
ErrorNote ==
  [id |-> now + 2, text |-> FatalText, x |-> 50, y |-> 50, title |-> ErrTitle]

\* setShowModal(false): the modal leaves the document and its canvas
\* with it; an image still loading draws on that canvas, out of sight
HideModal ==
  /\ showModal' = FALSE
  /\ canvas' = Blank
  /\ loads' = <<>>

\* startPrint up to its first await: the busy check, the user note and
\* reveal step 0 of the user loop
StartPrint(cap) ==
  /\ ~Busy
  /\ started < cap
  /\ started' = started + 1
  /\ \E rp \in RandPairs :
       LET S     == OrElse(inputText, EmptyMsg)
           newId == now
           x     == NotePos(rp[1])
           y     == NotePos(rp[2])
           added == AddCard(cards, UserNote(newId, x, y))
       IN  /\ isPrinting' = TRUE
           /\ cards' = SetText(added, newId, RevealText(S, 0))
           /\ tasks' = Append(SelectSeq(tasks, InFlight),
                [pc |-> "user", S |-> S, newId |-> newId, x |-> x, y |-> y,
                 i |-> 0, usteps |-> 1,
                 uclicks |-> IF UserClick(S, 0) THEN {0} ELSE {},
                 calls |-> 0, fail |-> "none",
                 R |-> <<>>, replyId |-> -1, rsteps |-> 0, rclicks |-> {},
                 nUser |-> 1, nReply |-> 0, nErr |-> 0])
  /\ HideModal
  /\ UNCHANGED <<variant, apiKey, now, stickers, inputText, blocked, drags,
                 lastUp>>
  /\ UNCHANGED <<styleVars, modalMode, audioVars, fxSrc, fxParams>>

\* startPrint called while the busy flag is set: if (isPrinting) return;
StartPrintBusy ==
  /\ Busy
  /\ blocked < MaxBlocked
  /\ blocked' = blocked + 1
  /\ UNCHANGED <<variant, apiKey, now, cards, stickers, inputText,
                 isPrinting, tasks, started, drags, lastUp>>
  /\ UNCHANGED <<styleVars, showModal, modalMode, audioVars, fxSrc, fxParams,
                 canvasVars>>

\* await ai.models.generateContent(...) / await model.generateContent(prompt)
IssueCallTwice(t) == [t EXCEPT !.pc = "call", !.calls = @ + 2]
IssueCall(t) == [t EXCEPT !.pc = "call", !.calls = @ + 1]

\* catch (e) { console.error(...); [C: add the error note] } finally
\* { setIsPrinting(false) }
Fail(k, why) ==
  /\ cards' = IF variant = "C" THEN AddCard(cards, ErrorNote) ELSE cards
  /\ tasks' = [tasks EXCEPT ![k] =
                 [@ EXCEPT !.pc = "done", !.fail = why,
                           !.nErr = IF variant = "C" THEN @ + 1 ELSE @]]
  /\ isPrinting' = Cleared

\* the try block from the client's construction to the awaited call; the
\* construction of the provider client may throw
TryCall(k) ==
  \E built \in BOOLEAN :
    IF variant = "C" /\ ~apiKey
      THEN Fail(k, "nokey")
      ELSE IF ~built
        THEN Fail(k, "ctor")
        ELSE /\ tasks' = [tasks EXCEPT ![k] = IssueCall(@)]
             /\ UNCHANGED <<cards, isPrinting>>

\* the timer of the user loop fires: the next reveal step, or the code
\* after the loop up to the next await
UserTimer(k) ==
  /\ tasks[k].pc = "user"
  /\ LET t  == tasks[k]
         i2 == t.i + 1
     IN  IF LoopContinues(t.S, i2)
           THEN /\ cards' = SetText(cards, t.newId, RevealText(t.S, i2))
                /\ tasks' = [tasks EXCEPT ![k] =
                     [@ EXCEPT !.i = i2, !.usteps = @ + 1,
                               !.uclicks = IF UserClick(t.S, i2)
                                             THEN @ \cup {i2} ELSE @]]
                /\ UNCHANGED <<isPrinting, inputText>>
           ELSE /\ inputText' = <<>>
                /\ CASE variant = "A" ->
                          /\ isPrinting' = Cleared
                          /\ tasks' = [tasks EXCEPT ![k].pc = "done"]
                          /\ UNCHANGED cards
                     [] variant = "B" ->
                          /\ tasks' = [tasks EXCEPT ![k].pc = "think"]
                          /\ UNCHANGED <<cards, isPrinting>>
                     [] variant = "C" -> TryCall(k)
  /\ UNCHANGED <<variant, apiKey, now, stickers, started, blocked, drags,
                 lastUp>>
  /\ UNCHANGED <<styleVars, showModal, modalMode, audioVars, fxSrc, fxParams,
                 canvasVars>>

\* revision B: await new Promise(r => setTimeout(r, 600)) is over
ThinkTimer(k) ==
  /\ tasks[k].pc = "think"
  /\ TryCall(k)
  /\ UNCHANGED <<variant, apiKey, now, stickers, inputText, started, blocked,
                 drags, lastUp>>
  /\ UNCHANGED <<styleVars, showModal, modalMode, audioVars, fxSrc, fxParams,
                 canvasVars>>

\* the call resolves with text r: the reply note and reveal step 0 of the
\* reply loop
CallResolve(k) ==
  /\ tasks[k].pc = "call"
  /\ apiKey
  /\ \E r \in Replies :
       LET t       == tasks[k]
           R       == IF variant = "B" THEN OrElse(r, HumorOffline) ELSE r
           replyId == now + 1
           added   == AddCard(cards, ReplyNote(replyId, t.x, t.y))
       IN  /\ cards' = SetText(added, replyId, RevealText(R, 0))
           /\ tasks' = [tasks EXCEPT ![k] =
                [@ EXCEPT !.pc = "reply", !.R = R, !.replyId = replyId,
                          !.i = 0, !.rsteps = 1, !.nReply = @ + 1,
                          !.rclicks = IF ReplyClick(R, 0) THEN {0} ELSE {}]]
  /\ UNCHANGED <<variant, apiKey, now, stickers, inputText, isPrinting,
                 started, blocked, drags, lastUp>>
  /\ UNCHANGED <<styleVars, showModal, modalMode, audioVars, fxSrc, fxParams,
                 canvasVars>>

\* the call rejects (network error, provider error, bad credential)
CallReject(k) ==
  /\ tasks[k].pc = "call"
  /\ Fail(k, "call")
  /\ UNCHANGED <<variant, apiKey, now, stickers, inputText, started, blocked,
                 drags, lastUp>>
  /\ UNCHANGED <<styleVars, showModal, modalMode, audioVars, fxSrc, fxParams,
                 canvasVars>>

\* the 30 ms timer of the reply loop fires
ReplyTimer(k) ==
  /\ tasks[k].pc = "reply"
  /\ LET t  == tasks[k]
         i2 == t.i + 1
     IN  IF LoopContinues(t.R, i2)
           THEN /\ cards' = SetText(cards, t.replyId, RevealText(t.R, i2))
                /\ tasks' = [tasks EXCEPT ![k] =
                     [@ EXCEPT !.i = i2, !.rsteps = @ + 1,
                               !.rclicks = IF ReplyClick(t.R, i2)
                                             THEN @ \cup {i2} ELSE @]]
                /\ UNCHANGED isPrinting
           ELSE /\ isPrinting' = Cleared
                /\ tasks' = [tasks EXCEPT ![k].pc = "done"]
                /\ UNCHANGED cards
  /\ UNCHANGED <<variant, apiKey, now, stickers, inputText, started, blocked,
                 drags, lastUp>>
  /\ UNCHANGED <<styleVars, showModal, modalMode, audioVars, fxSrc, fxParams,
                 canvasVars>>

\* ------------------------------------------------------ notes and stickers
\* the close button of a note: removeCard(card.id)
\* an element that leaves the document takes its inline style with it
Unrender ==
  /\ raised' = raised \cap ElementsOf(cards', stickers')
  /\ offset' = Prune(offset, ElementsOf(cards', stickers'))

RemoveCard ==
  /\ \E k \in DOMAIN cards : cards' = RemoveById(cards, cards[k].id)
  /\ UNCHANGED <<variant, apiKey, now, stickers, inputText, isPrinting,
                 tasks, started, blocked, drags, lastUp>>
  /\ Unrender
  /\ UNCHANGED <<showModal, modalMode, audioVars, fxSrc, fxParams,
                 canvasVars>>

\* addSticker(src, animation): the new sticker; the modal is hidden and
\* the FX source reset
NewSticker(src, animation, rp) ==
  [id |-> now, src |-> src, x |-> StickerPos(rp[1]), y |-> StickerPos(rp[2]),
   animation |-> animation]

\* handleStickerUpload outside the FX modal: addSticker(src)
AddSticker ==
  /\ variant # "A"
  /\ modalMode # "fx"
  /\ Len(stickers) < MaxStickers
  /\ \E rp \in RandPairs :
       stickers' = Append(stickers, NewSticker(BlobUrl, NoAnimation, rp))
  /\ HideModal
  /\ fxSrc' = NoSrc
  /\ UNCHANGED <<variant, apiKey, now, cards, inputText, isPrinting, tasks,
                 started, blocked, drags, lastUp>>
  /\ UNCHANGED <<styleVars, modalMode, audioVars, fxParams>>

\* onContextMenu of a sticker: removeSticker(e, id)
RemoveSticker ==
  /\ variant = "B"
  /\ \E k \in DOMAIN stickers, ctrl \in BOOLEAN :
       stickers' = IF ctrl THEN RemoveById(stickers, stickers[k].id)
                           ELSE stickers
  /\ UNCHANGED <<variant, apiKey, now, cards, inputText, isPrinting, tasks,
                 started, blocked, drags, lastUp>>
  /\ Unrender
  /\ UNCHANGED <<showModal, modalMode, audioVars, fxSrc, fxParams,
                 canvasVars>>

\* ----------------------------------------------------------- drag and trash
Present(id, kind) ==
  IF kind = "card" THEN \E k \in DOMAIN cards : cards[k].id = id
                   ELSE \E k \in DOMAIN stickers : stickers[k].id = id

Targets ==
  {<<cards[k].id, "card">> : k \in DOMAIN cards}
    \cup {<<stickers[k].id, "sticker">> : k \in DOMAIN stickers}

\* handleDragStart(e, id, type): onBtn says that e.target is the close
\* button of the note, and each armed pair remembers it
MouseDown(cap) ==
  /\ Len(drags) < cap
  /\ \E tg \in Targets, onBtn \in BOOLEAN :
       /\ onBtn => tg[2] = "card"
       /\ IF ControlCheck(onBtn)
            THEN UNCHANGED <<drags, lastUp, raised>>
            ELSE /\ drags' = Append(drags, [id |-> tg[1], kind |-> tg[2],
                                             onBtn |-> onBtn])
                 /\ lastUp' = NoUp
                 /\ raised' = IF variant = "C" THEN raised
                                ELSE raised \cup {tg}
  /\ UNCHANGED <<variant, apiKey, now, cards, stickers, inputText,
                 isPrinting, tasks, started, blocked>>
  /\ UNCHANGED <<offset, showModal, modalMode, audioVars, fxSrc, fxParams,
                 canvasVars>>

\* the elements of the armed listener pairs that are still rendered
Armed(kind) ==
  {<<drags[k].id, kind>> : k \in {j \in DOMAIN drags : drags[j].kind = kind}}
    \cap Targets

\* a mousemove on window at p: every armed onMove puts its element at
\* its start position plus the pointer's travel
MouseMove ==
  /\ drags # <<>>
  /\ \E p \in MovePoints :
       offset' = Put(offset, Armed("card") \cup Armed("sticker"), p)
  /\ UNCHANGED <<variant, apiKey, now, cards, stickers, inputText,
                 isPrinting, tasks, started, blocked, drags, lastUp>>
  /\ UNCHANGED <<raised, showModal, modalMode, audioVars, fxSrc, fxParams,
                 canvasVars>>

\* the ids the armed onUp listeners of one kind ask to delete
DragIds(kind) == {drags[k].id : k \in {j \in DOMAIN drags : drags[j].kind = kind}}

RECURSIVE RemoveAll(_, _)
RemoveAll(coll, ids) ==
  IF ids = {} THEN coll
  ELSE LET id == CHOOSE v \in ids : TRUE
       IN  RemoveAll(RemoveById(coll, id), ids \ {id})

\* a mouseup on window at (px, py): every armed onUp runs, puts its
\* element back on its resting layer ("10" or "5") and tests the trash
MouseUp ==
  /\ drags # <<>>
  /\ \E px \in Coord, py \in Coord :
       LET hit == variant # "A" /\ InTrash(px, py)
           c2  == IF hit THEN RemoveAll(cards, DragIds("card")) ELSE cards
           s2  == IF hit THEN RemoveAll(stickers, DragIds("sticker"))
                         ELSE stickers
       IN  /\ cards' = c2
           /\ stickers' = s2
           /\ lastUp' = [x |-> px, y |-> py,
                         gone |-> (Len(cards) - Len(c2))
                                    + (Len(stickers) - Len(s2))]
           /\ raised' =
                (IF variant = "C" THEN raised
                 ELSE raised \ (Armed("card") \cup Armed("sticker")))
                  \cap ElementsOf(c2, s2)
           /\ offset' = Prune(offset, ElementsOf(c2, s2))
  /\ drags' = <<>>
  /\ UNCHANGED <<variant, apiKey, now, inputText, isPrinting, tasks,
                 started, blocked>>
  /\ UNCHANGED <<showModal, modalMode, audioVars, fxSrc, fxParams,
                 canvasVars>>

\* -------------------------------------------------------------- the modal
FxOpen == showModal /\ modalMode = "fx"

\* the modes the dock of a revision offers
Modes ==
  CASE variant = "A" -> {"text", "audio"}
    [] variant = "B" -> {"text", "audio", "sticker", "fx"}
    [] variant = "C" -> {"text", "audio", "fx"}

\* a button of the dock: setModalMode(m); setShowModal(true).  The canvas
\* of the FX modal enters the document blank; the FX effect runs when
\* modalMode has changed
OpenModal(m) ==
  /\ ~showModal
  /\ m \in Modes
  /\ Len(loads) < MaxLoads
  /\ showModal' = TRUE
  /\ modalMode' = m
  /\ canvas' = Blank
  /\ loads' = IF m # modalMode
                THEN Effect(TRUE, m, fxSrc, pixelSize, fxColor, loads)
                ELSE loads
  /\ UNCHANGED <<variant, apiKey, now, cards, stickers, inputText,
                 isPrinting, tasks, started, blocked, drags, lastUp,
                 styleVars, audioVars, fxSrc, fxParams>>

\* the X of the modal, or a click on its backdrop: setShowModal(false)
CloseModal ==
  /\ showModal
  /\ HideModal
  /\ UNCHANGED <<variant, apiKey, now, cards, stickers, inputText,
                 isPrinting, tasks, started, blocked, drags, lastUp,
                 styleVars, modalMode, audioVars, fxSrc, fxParams>>

\* ------------------------------------------------------- the tape player
\* handleFileChange: a new source pauses the element
HandleFileChange ==
  /\ showModal /\ modalMode = "audio"
  /\ \E file \in Files \cup {NoFile} :
       IF file # NoFile
         THEN /\ audioSrc' = file
              /\ audioName' = DisplayName(file)
              /\ isPlaying' = FALSE
              /\ paused' = TRUE
         ELSE UNCHANGED <<audioSrc, audioName, isPlaying, paused>>
  /\ UNCHANGED <<variant, apiKey, now, cards, stickers, inputText,
                 isPrinting, tasks, started, blocked, drags, lastUp,
                 styleVars, showModal, modalMode, revertTimers, fxSrc,
                 fxParams, canvasVars>>

\* toggleAudio
ToggleAudio ==
  /\ showModal /\ modalMode = "audio"
  /\ IF NoSource(audioSrc)
       THEN /\ Len(revertTimers) < MaxTimers
            /\ audioName' = ErrNoTape
            /\ revertTimers' = Append(revertTimers, RevertDelay)
            /\ UNCHANGED <<isPlaying, paused>>
       ELSE /\ paused' = ~paused
            /\ isPlaying' = paused
            /\ UNCHANGED <<audioName, revertTimers>>
  /\ UNCHANGED <<variant, apiKey, now, cards, stickers, inputText,
                 isPrinting, tasks, started, blocked, drags, lastUp,
                 styleVars, showModal, modalMode, audioSrc, fxSrc, fxParams,
                 canvasVars>>

\* the oldest timer of toggleAudio fires: setAudioName("INSERT TAPE")
RevertTimer ==
  /\ revertTimers # <<>>
  /\ audioName' = InsertTape
  /\ revertTimers' = Tail(revertTimers)
  /\ UNCHANGED <<variant, apiKey, now, cards, stickers, inputText,
                 isPrinting, tasks, started, blocked, drags, lastUp,
                 styleVars, showModal, modalMode, audioSrc, isPlaying,
                 paused, fxSrc, fxParams, canvasVars>>

\* <audio onEnded={() => setIsPlaying(false)} />
AudioEnded ==
  /\ audioSrc # NoTape /\ ~paused /\ isPlaying
  /\ isPlaying' = FALSE
  /\ UNCHANGED <<variant, apiKey, now, cards, stickers, inputText,
                 isPrinting, tasks, started, blocked, drags, lastUp,
                 styleVars, showModal, modalMode, audioSrc, audioName,
                 paused, revertTimers, fxSrc, fxParams, canvasVars>>

\* ------------------------------------------------------ the FX generator
\* handleStickerUpload in the FX modal: setFxSrc(src), and the effect
UploadFx ==
  /\ FxOpen
  /\ Len(loads) < MaxLoads
  /\ \E src \in Images :
       /\ fxSrc' = src
       /\ loads' = Effect(TRUE, modalMode, src, pixelSize, fxColor, loads)
  /\ UNCHANGED <<variant, apiKey, now, cards, stickers, inputText,
                 isPrinting, tasks, started, blocked, drags, lastUp,
                 styleVars, showModal, modalMode, audioVars, fxParams,
                 canvas>>

\* the range slider: setPixelSize(Number(e.target.value)), and the effect
SetPixelSize ==
  /\ FxOpen
  /\ Len(loads) < MaxLoads
  /\ \E ps \in PixelSizes :
       /\ ps # pixelSize
       /\ pixelSize' = ps
       /\ loads' = Effect(TRUE, modalMode, fxSrc, ps, fxColor, loads)
  /\ UNCHANGED <<variant, apiKey, now, cards, stickers, inputText,
                 isPrinting, tasks, started, blocked, drags, lastUp,
                 styleVars, showModal, modalMode, audioVars, fxSrc, fxColor,
                 fxAnimation, canvas>>

\* the colour input: setFxColor(e.target.value), and the effect
SetFxColor ==
  /\ FxOpen
  /\ Len(loads) < MaxLoads
  /\ \E color \in Colors :
       /\ color # fxColor
       /\ fxColor' = color
       /\ loads' = Effect(TRUE, modalMode, fxSrc, pixelSize, color, loads)
  /\ UNCHANGED <<variant, apiKey, now, cards, stickers, inputText,
                 isPrinting, tasks, started, blocked, drags, lastUp,
                 styleVars, showModal, modalMode, audioVars, fxSrc,
                 pixelSize, fxAnimation, canvas>>

\* the select: setFxAnimation(e.target.value); not a dependency of the
\* effect
SetFxAnimation ==
  /\ FxOpen
  /\ \E a \in Animations : a # fxAnimation /\ fxAnimation' = a
  /\ UNCHANGED <<variant, apiKey, now, cards, stickers, inputText,
                 isPrinting, tasks, started, blocked, drags, lastUp,
                 styleVars, showModal, modalMode, audioVars, fxSrc,
                 pixelSize, fxColor, canvasVars>>

\* img.onload of one of the pending images, in any order
ImgLoad ==
  \E n \in DOMAIN loads :
    /\ canvas' = Render(loads[n].src, loads[n].ps, loads[n].color)
    /\ loads' = SubSeq(loads, 1, n - 1) \o SubSeq(loads, n + 1, Len(loads))
    /\ UNCHANGED <<variant, apiKey, now, cards, stickers, inputText,
                   isPrinting, tasks, started, blocked, drags, lastUp,
                   styleVars, showModal, modalMode, audioVars, fxSrc,
                   fxParams>>

\* saveFx: addSticker(canvas.toDataURL('image/png'), fxAnimation); the
\* button is disabled while there is no source
SaveFx ==
  /\ FxOpen
  /\ fxSrc # NoSrc
  /\ Len(stickers) < MaxSaves
  /\ \E rp \in RandPairs :
       stickers' = Append(stickers, NewSticker(DataUrl(canvas), fxAnimation, rp))
  /\ HideModal
  /\ fxSrc' = NoSrc
  /\ UNCHANGED <<variant, apiKey, now, cards, inputText, isPrinting, tasks,
                 started, blocked, drags, lastUp, styleVars, modalMode,
                 audioVars, fxParams>>

\* -------------------------------------------------------------------- Next
Next ==
  \/ Tick
  \/ TypeInput
  \/ StartPrint(MaxCycles)
  \/ StartPrintBusy
  \/ \E k \in DOMAIN tasks : UserTimer(k)
  \/ \E k \in DOMAIN tasks : ThinkTimer(k)
  \/ \E k \in DOMAIN tasks : CallResolve(k)
  \/ \E k \in DOMAIN tasks : CallReject(k)
  \/ \E k \in DOMAIN tasks : ReplyTimer(k)
  \/ RemoveCard

\* the submission chain: startPrint, its timers and its remote call, with
\* the close button of the notes
Spec == Init /\ [][Next]_vars

NextBoard ==
  \/ Tick
  \/ StartPrint(MaxBoardCycles)
  \/ \E k \in DOMAIN tasks : UserTimer(k)
  \/ \E k \in DOMAIN tasks : ThinkTimer(k)
  \/ \E k \in DOMAIN tasks : CallResolve(k)
  \/ \E k \in DOMAIN tasks : CallReject(k)
  \/ \E k \in DOMAIN tasks : ReplyTimer(k)
  \/ RemoveCard
  \/ AddSticker
  \/ RemoveSticker
  \/ MouseDown(MaxDrags)
  \/ MouseUp

\* the board: the notes of a submission, the stickers, drag and trash
SpecBoard == Init /\ [][NextBoard]_vars

NextDrag ==
  \/ StartPrint(MaxBoardCycles)
  \/ \E k \in DOMAIN tasks : UserTimer(k)
  \/ AddSticker
  \/ MouseDown(MaxPairs)
  \/ MouseMove
  \/ MouseUp

\* the drag controller: pointer-down, pointer-move and pointer-up on the
\* user note of one submission and on the stickers
SpecDrag == Init /\ [][NextDrag]_vars

NextAudio ==
  \/ \E m \in {"text", "audio"} : OpenModal(m)
  \/ CloseModal
  \/ HandleFileChange
  \/ ToggleAudio
  \/ RevertTimer
  \/ AudioEnded

\* the tape player in its modal
SpecAudio == Init /\ [][NextAudio]_vars

\* the FX generator is written out in revision B only
InitFx == Init /\ variant = "B" /\ apiKey = TRUE

NextFx ==
  \/ \E m \in {"text", "fx"} : OpenModal(m)
  \/ CloseModal
  \/ UploadFx
  \/ SetPixelSize
  \/ SetFxColor
  \/ SetFxAnimation
  \/ ImgLoad
  \/ SaveFx

\* the FX generator in its modal
SpecFx == InitFx /\ [][NextFx]_vars

\* the FX modal open on any image of the gallery, any slider position and
\* any colour, the image of the effect still loading
InitFilter ==
  /\ variant = "B" /\ apiKey = TRUE
  /\ now = 0 /\ cards = <<>> /\ stickers = <<>> /\ inputText = <<>>
  /\ isPrinting = FALSE /\ tasks = <<>> /\ started = 0 /\ blocked = 0
  /\ drags = <<>> /\ lastUp = NoUp /\ raised = {} /\ offset = NoStyle
  /\ showModal = TRUE /\ modalMode = "fx"
  /\ audioSrc = NoTape /\ audioName = InsertTape /\ isPlaying = FALSE
  /\ paused = TRUE /\ revertTimers = <<>>
  /\ fxSrc \in Gallery /\ pixelSize \in Sliders /\ fxColor \in Colors
  /\ fxAnimation = NoAnimation
  /\ canvas = Blank
  /\ loads = Effect(showModal, modalMode, fxSrc, pixelSize, fxColor, <<>>)

NextFilter ==
  \/ ImgLoad
  \/ SetFxColor

\* the filter on its own: one image, one block size, and the tint changed
\* at most once
SpecFilter == InitFilter /\ [][NextFilter]_vars

NextLive ==
  \/ TypeInput
  \/ StartPrint(MaxCycles)
  \/ \E k \in DOMAIN tasks : UserTimer(k)
  \/ \E k \in DOMAIN tasks : ThinkTimer(k)
  \/ \E k \in DOMAIN tasks : CallResolve(k)
  \/ \E k \in DOMAIN tasks : CallReject(k)
  \/ \E k \in DOMAIN tasks : ReplyTimer(k)
  \/ RemoveCard
  \/ MouseDown(MaxDrags)
  \/ MouseUp

\* timers fire, and a call that was issued resolves or rejects
Fairness ==
  /\ WF_vars(\E k \in DOMAIN tasks : UserTimer(k))
  /\ WF_vars(\E k \in DOMAIN tasks : ThinkTimer(k))
  /\ WF_vars(\E k \in DOMAIN tasks : CallResolve(k) \/ CallReject(k))
  /\ WF_vars(\E k \in DOMAIN tasks : ReplyTimer(k))

\* the submission chain under the close button and the trash, with its
\* timers and its call left to run
SpecLive == Init /\ [][NextLive]_vars /\ Fairness

\* ================================================================== claims
InFlightTasks == {k \in DOMAIN tasks : InFlight(tasks[k])}
CardsWithId(id) == {j \in DOMAIN cards : cards[j].id = id}
\* S[0:i], and the text reveal step i of S is to show
Prefix(S, i) == [j \in 1..i |-> S[j]]
Shown(S, i) == IF i < Len(S) THEN Append(Prefix(S, i), Cursor) ELSE S
PastUserLoop(t) == t.pc \in {"think", "call", "reply", "done"}

\* C1: a reveal loop over S performs exactly Len(S)+1 steps, step i showing
\* S[0:i] followed by the cursor while i < Len(S); after the last step the
\* note shows S with no cursor.  Both loops, every S handed to them,
\* the empty string included.
TypewriterReveal ==
  \A k \in DOMAIN tasks :
    LET t == tasks[k]
    IN  /\ t.pc = "user" =>
             /\ t.i <= Len(t.S) /\ t.usteps = t.i + 1
             /\ \A j \in CardsWithId(t.newId) : cards[j].text = Shown(t.S, t.i)
        /\ PastUserLoop(t) =>
             /\ t.usteps = Len(t.S) + 1
             /\ \A j \in CardsWithId(t.newId) : cards[j].text = t.S
        /\ t.pc = "reply" =>
             /\ t.i <= Len(t.R) /\ t.rsteps = t.i + 1
             /\ \A j \in CardsWithId(t.replyId) : cards[j].text = Shown(t.R, t.i)
        /\ (t.pc = "done" /\ t.nReply = 1) =>
             /\ t.rsteps = Len(t.R) + 1
             /\ \A j \in CardsWithId(t.replyId) : cards[j].text = t.R

\* a finished cycle whose reply was the empty string: both notes are on the
\* board, the user note showing S and the reply note showing ""
WitnessReveal ==
  \E k \in DOMAIN tasks :
    LET t == tasks[k]
    IN  /\ t.pc = "done" /\ t.nReply = 1 /\ t.R = <<>> /\ t.rsteps = 1
        /\ \E j \in CardsWithId(t.newId) : cards[j].text = t.S
        /\ \E j \in CardsWithId(t.replyId) : cards[j].text = <<>>

\* C2: at most one submission cycle is in flight; a call of startPrint that
\* meets the busy flag adds no note, starts no loop, issues no call and
\* leaves the running cycle as it is.
OneCycleInFlight ==
  /\ [](Cardinality(InFlightTasks) <= 1)
  /\ [][blocked' # blocked =>
          UNCHANGED <<cards, stickers, tasks, started, isPrinting>>]_vars

\* a call was turned away while a cycle was waiting for its remote call
WitnessBlocked ==
  /\ blocked > 0
  /\ \E k \in DOMAIN tasks : tasks[k].pc = "call" /\ tasks[k].calls = 1
  /\ isPrinting

\* C3: a cycle whose remote call failed ends with exactly one error note
\* added and with the busy flag cleared.
ErrorNoteOnFailure ==
  \A k \in DOMAIN tasks :
    (tasks[k].pc = "done" /\ tasks[k].fail # "none") =>
      (tasks[k].nErr = 1 /\ ~isPrinting)

\* C7: every cycle of an AI revision that passes the busy check issues
\* exactly one outbound call, never zero, never more.
ExactlyOneCall ==
  \A k \in DOMAIN tasks :
    (variant # "A" /\ tasks[k].pc = "done") => tasks[k].calls = 1

\* C7, amended: a cycle issues at most one outbound call and never retries;
\* it issues exactly one once the try block has built the provider client,
\* and none when the credential is missing or the client cannot be built.
AtMostOneCall ==
  \A k \in DOMAIN tasks :
    LET t == tasks[k]
    IN  /\ t.calls <= 1
        /\ t.pc \in {"call", "reply"} => t.calls = 1
        /\ (variant # "A" /\ t.pc = "done") =>
             t.calls = (IF t.fail \in {"nokey", "ctor"} THEN 0 ELSE 1)
        /\ t.pc \in {"user", "think"} => t.calls = 0

\* a cycle ended by a rejected call: one call was made and none followed
WitnessNoRetry ==
  \E k \in DOMAIN tasks :
    tasks[k].pc = "done" /\ tasks[k].fail = "call" /\ tasks[k].calls = 1

\* C8: the click fires at exactly the steps i < Len(S) of the user loop and
\* at exactly the even steps i < Len(S) of the reply loop, never at the
\* final step.
ClickCadence ==
  \A k \in DOMAIN tasks :
    LET t == tasks[k]
    IN  /\ t.uclicks = {j \in 0..(t.usteps - 1) : j < Len(t.S)}
        /\ t.rclicks = {j \in 0..(t.rsteps - 1) : j < Len(t.R) /\ j % 2 = 0}

\* C9: a cycle adds exactly one user note and later at most one reply
\* note; the reply note is added only after the user loop's final step and
\* the return of the remote call, and it is put after every note already
\* in the collection, the user note among them.
NotesPerCycle ==
  /\ [](\A k \in DOMAIN tasks :
          LET t == tasks[k]
          IN  /\ t.nUser = 1 /\ t.nReply <= 1
              /\ t.nReply = 1 =>
                   t.usteps = Len(t.S) + 1 /\ t.calls >= 1 /\ t.fail = "none")
  /\ [][/\ Len(cards') <= Len(cards) + 1
        /\ started' # started =>
             /\ Len(cards') = Len(cards) + 1
             /\ cards'[Len(cards')].id = now
             /\ cards'[Len(cards')].title \in {UserTitle, NoTitle}
             /\ \A j \in DOMAIN cards : cards'[j].id = cards[j].id
        /\ (started' = started /\ Len(cards') = Len(cards) + 1) =>
             /\ \A j \in DOMAIN cards :
                  cards'[j].id = cards[j].id /\ cards'[j].title = cards[j].title
             /\ \E k \in DOMAIN tasks :
                  \/ /\ tasks[k].pc = "call" /\ tasks'[k].pc = "reply"
                     /\ tasks[k].nReply = 0 /\ tasks'[k].nReply = 1
                     /\ cards'[Len(cards')].title = ReplyTitle
                     /\ cards'[Len(cards')].id = tasks'[k].replyId
                  \/ /\ tasks'[k].pc = "done" /\ tasks'[k].fail # "none"
                     /\ cards'[Len(cards')].title = ErrTitle]_vars

\* the user note and, after it, the reply note of one cycle
WitnessReplyAfterUser ==
  \E k \in DOMAIN tasks, a \in DOMAIN cards, b \in DOMAIN cards :
    /\ tasks[k].nReply = 1
    /\ cards[a].id = tasks[k].newId /\ cards[a].title = UserTitle
    /\ cards[b].id = tasks[k].replyId /\ cards[b].title = ReplyTitle
    /\ a < b

\* the release point of the last mouseup lies in the trash rectangle of a
\* revision that has a trash bin
Released == lastUp # NoUp
ReleasedInside ==
  /\ Released
  /\ variant # "A"
  /\ lastUp.x \in TrashRect.left..TrashRect.right
  /\ lastUp.y \in TrashRect.top..TrashRect.bottom
IdSpace == 0..(MaxClock + 2)

\* C4: a release inside the trash rectangle removes the dragged entity from
\* its own collection and no entity with another id; a release outside
\* leaves both collections as they were.
TrashDrop ==
  [][(lastUp' # lastUp /\ lastUp' # NoUp) =>
       IF ReleasedInside'
         THEN /\ cards' = SelectSeq(cards,
                            LAMBDA c : c.id \notin DragIds("card"))
              /\ stickers' = SelectSeq(stickers,
                               LAMBDA c : c.id \notin DragIds("sticker"))
              /\ \A g \in DOMAIN drags :
                   IF drags[g].kind = "card"
                     THEN \A j \in DOMAIN cards' : cards'[j].id # drags[g].id
                     ELSE \A j \in DOMAIN stickers' :
                            stickers'[j].id # drags[g].id
         ELSE cards' = cards /\ stickers' = stickers]_vars

\* a drag was released inside the trash and took its entity off the board,
\* leaving another entity on it
WitnessTrashDrop ==
  /\ ReleasedInside
  /\ lastUp.gone = 1
  /\ Len(cards) + Len(stickers) >= 1

\* C5: removing an id that is not in a collection leaves its contents and
\* order unchanged, and removing an id twice equals removing it once.
RemoveAbsentIsNoOp ==
  \A id \in IdSpace :
    /\ CardsWithId(id) = {} => RemoveById(cards, id) = cards
    /\ ~Present(id, "sticker") => RemoveById(stickers, id) = stickers
    /\ RemoveById(RemoveById(cards, id), id) = RemoveById(cards, id)
    /\ RemoveById(RemoveById(stickers, id), id) = RemoveById(stickers, id)
    /\ CardsWithId(id) # {} => Len(RemoveById(cards, id)) < Len(cards)

\* a drag released inside the trash whose entity was already gone: the
\* removal found nothing to remove and the board is not empty
WitnessRemoveAbsent ==
  /\ ReleasedInside
  /\ lastUp.gone = 0
  /\ cards # <<>> /\ stickers # <<>>

\* C6: no two notes share an id and no two stickers share an id.
UniqueIds ==
  /\ \A a \in DOMAIN cards, b \in DOMAIN cards :
       cards[a].id = cards[b].id => a = b
  /\ \A a \in DOMAIN stickers, b \in DOMAIN stickers :
       stickers[a].id = stickers[b].id => a = b

\* C10: every stored position of a note or a sticker lies within 5..70.
InRange(v) == 5 <= v /\ v <= 70
PositionsInRange ==
  /\ \A j \in DOMAIN cards : InRange(cards[j].x) /\ InRange(cards[j].y)
  /\ \A j \in DOMAIN stickers : InRange(stickers[j].x) /\ InRange(stickers[j].y)

\* after a drag was released: a user note, its reply note at the largest
\* offset, and a sticker are on the board
WitnessPositions ==
  /\ Released
  /\ \E a \in DOMAIN cards, b \in DOMAIN cards :
       /\ cards[a].title = UserTitle /\ cards[b].title = ReplyTitle
       /\ cards[b].y = cards[a].y + 15 /\ cards[b].y > 50
  /\ stickers # <<>>

\* the elements whose position a step has written
Repositioned ==
  {e \in DOMAIN offset' : e \notin DOMAIN offset \/ offset'[e] # offset[e]}

\* C11: a pointer-down whose target is the close button of a note arms no
\* listener pair, and leaves the position and the stacking layer of every
\* element as they were.
ControlNeverStartsDrag ==
  /\ [](\A g \in DOMAIN drags : ~drags[g].onBtn)
  /\ [][(Len(drags') > Len(drags) /\ drags'[Len(drags')].onBtn) =>
          (raised' = raised /\ Repositioned = {})]_vars

\* C12: at most one listener pair is armed at any time, a pointer-move
\* repositions at most one element and a pointer-up ends at most one
\* session.
OneDragSession ==
  /\ [](Len(drags) <= 1)
  /\ [][/\ Cardinality(Repositioned) <= 1
        /\ Len(drags) - Len(drags') <= 1]_vars

\* an onload has drawn on the canvas that is in the document
Drawn == canvas.of.src # NoSrc

OpNames == [k \in DOMAIN canvas.ops |-> canvas.ops[k].op]

\* C14: with the tint at '#ffffff' a render makes the downsample draw and
\* the unsmoothed upscale draw only, never a fill or a multiply draw; with
\* another tint it then fills under source-atop and redraws under
\* multiply, in that order; either way the composite mode it leaves is
\* source-over.
TintPasses ==
  Drawn =>
    LET ps == Max(1, canvas.of.ps)
    IN  /\ canvas.gco = "source-over"
        /\ ~canvas.smoothing
        /\ (canvas.smallWidth - 1) * ps < canvas.width
        /\ canvas.width <= canvas.smallWidth * ps
        /\ (canvas.smallHeight - 1) * ps < canvas.height
        /\ canvas.height <= canvas.smallHeight * ps
        /\ canvas.of.color = "#ffffff" =>
             /\ OpNames = <<"clearRect", "drawImage">>
             /\ \A k \in DOMAIN canvas.ops : canvas.ops[k].gco = "source-over"
        /\ canvas.of.color # "#ffffff" =>
             /\ OpNames = <<"clearRect", "drawImage", "fillRect", "drawImage">>
             /\ canvas.ops[2].gco = "source-over"
             /\ canvas.ops[3].gco = "source-atop"
             /\ canvas.ops[4].gco = "multiply"

\* a tinted render is on the canvas, for the tint that is set, and no
\* image is loading
WitnessTintPasses ==
  /\ Drawn
  /\ canvas.of.color # White
  /\ Len(canvas.ops) = 4
  /\ fxColor = canvas.of.color
  /\ loads = <<>>

\* the FX working state as the component is constructed with it
FxPristine ==
  /\ fxSrc = NoSrc
  /\ pixelSize = 8
  /\ fxColor = "#ffffff"
  /\ fxAnimation = "none"

\* C15: the FX working state exists only while the FX modal is open.  A
\* step that closes it adds one sticker carrying the chosen animation
\* (save) or none (close), and either way leaves source, block size, tint
\* and animation at null, 8, '#ffffff' and 'none'.
FxStateOnlyWhileOpen ==
  /\ [](~FxOpen => FxPristine)
  /\ [][(FxOpen /\ ~FxOpen') =>
          /\ FxPristine'
          /\ \/ stickers' = stickers
             \/ /\ Len(stickers') = Len(stickers) + 1
                /\ SubSeq(stickers', 1, Len(stickers)) = stickers
                /\ stickers'[Len(stickers')].animation = fxAnimation]_vars

\* C19: while the FX modal is open, once no image of the effect is still
\* loading, what the canvas shows is the render of the current source,
\* block size and tint: no load started for older values has drawn last.
LatestRenderShown ==
  (FxOpen /\ fxSrc # NoSrc /\ loads = <<>> /\ Drawn) =>
    canvas = Render(fxSrc, pixelSize, fxColor)

\* C16: a play request with no source loaded shows 'ERR: NO TAPE', leaves
\* isPlaying false and the element paused, and arms one timer of 1500 ms;
\* when a timer fires the display becomes 'INSERT TAPE'.  While the error
\* message shows, a revert is pending.
NoTapeMessage ==
  /\ [](audioSrc = NoTape => (~isPlaying /\ paused))
  /\ [](audioName = ErrNoTape => revertTimers # <<>>)
  /\ [][Len(revertTimers') > Len(revertTimers) =>
          /\ audioSrc = NoTape
          /\ audioName' = ErrNoTape
          /\ ~isPlaying /\ ~isPlaying' /\ paused'
          /\ revertTimers' = Append(revertTimers, 1500)]_vars
  /\ [][Len(revertTimers') < Len(revertTimers) =>
          /\ audioName' = InsertTape
          /\ revertTimers' = Tail(revertTimers)]_vars

\* play was asked for with no tape: the message shows and its timer is
\* pending
WitnessNoTape ==
  /\ audioSrc = NoTape
  /\ audioName = ErrNoTape
  /\ revertTimers = <<RevertDelay>>
  /\ ~isPlaying /\ paused

\* C20: once a file is loaded the display shows its name, the first 15
\* characters in upper case, until another file is loaded.
FileNameStays ==
  audioSrc # NoTape =>
    audioName = ToUpperCase(SubSeq(audioSrc, 1, Min(15, Len(audioSrc))))

\* C17: when timers fire and an issued call resolves or rejects, a busy
\* flag that was set is cleared again, whatever the call returns and
\* whether or not a note of the cycle is closed or dropped on the trash
\* while its reveal is running.
BusyEventuallyCleared == isPrinting ~> ~isPrinting

\* the reply note has left the board while its reveal is still running
\* and the busy flag is set
WitnessRemovedMidReveal ==
  \E k \in DOMAIN tasks :
    /\ tasks[k].pc = "reply"
    /\ tasks[k].i < Len(tasks[k].R)
    /\ CardsWithId(tasks[k].replyId) = {}
    /\ isPrinting

\* a step of the typewriter loop for id, after the note was added: the
\* notes keep their number, order, ids, positions and titles, only notes
\* with that id may change their text, and with no such note on the board
\* nothing changes
RevealLeaves(id) ==
  /\ Len(cards') = Len(cards)
  /\ \A j \in DOMAIN cards :
       /\ cards'[j].id = cards[j].id
       /\ cards'[j].x = cards[j].x /\ cards'[j].y = cards[j].y
       /\ cards'[j].title = cards[j].title
       /\ cards[j].id # id => cards'[j].text = cards[j].text
  /\ CardsWithId(id) = {} => cards' = cards

\* C18: a note that was removed does not come back: the reveal steps still
\* running for its id leave the notes as they are, and a reveal step for
\* an id changes nothing but the text of the note with that id.
RemovedStaysRemoved ==
  [][started' = started =>
       \A k \in DOMAIN tasks :
         /\ tasks'[k].usteps > tasks[k].usteps => RevealLeaves(tasks[k].newId)
         /\ (tasks'[k].rsteps > tasks[k].rsteps /\ tasks[k].nReply = 1) =>
              RevealLeaves(tasks[k].replyId)]_vars

\* a finished cycle whose reply note was removed during its reveal or
\* after it: the reply note is not on the board, the user note is, with
\* its text
WitnessStaysRemoved ==
  \E k \in DOMAIN tasks :
    /\ tasks[k].pc = "done" /\ tasks[k].nReply = 1
    /\ tasks[k].rsteps = Len(tasks[k].R) + 1
    /\ CardsWithId(tasks[k].replyId) = {}
    /\ \E j \in CardsWithId(tasks[k].newId) : cards[j].text = tasks[k].S

====
